---- MODULE Spec2Model ----
(***************************************************************************)
(* Model of the worker-coactivo request handler (POST /procesar) and of    *)
(* its two pieces of text logic: the extraction of a JSON object from a    *)
(* model response (obtenerAnalisisIA) and the markdown-to-paragraph         *)
(* translation (generarDocxDesdeMarkdown).                                  *)
(*                                                                         *)
(* The sources hold three revisions of the program:                        *)
(*   "A"  src/index.js lines 1-307                                          *)
(*   "B"  src/index.js lines 309-611                                        *)
(*   "C"  src/unnamed/part_000                                              *)
(* The variable rev says which revision is running.                        *)
(*                                                                         *)
(* Texts are sequences of one-character strings.                           *)
(***************************************************************************)
EXTENDS Integers, Sequences, FiniteSets, TLC

VARIABLES rev, pc, req, textoExtraido, analisis, prompt, textoMandamiento,
          docx, docxUrl, resp, calls, hist, db, storage,
          exIn, exOut, mdIn, mdOut

vars == <<rev, pc, req, textoExtraido, analisis, prompt, textoMandamiento,
          docx, docxUrl, resp, calls, hist, db, storage,
          exIn, exOut, mdIn, mdOut>>

Revisions == {"A", "B", "C"}

(***************************************************************************)
(* Bounds                                                                  *)
(***************************************************************************)
MaxShort == 3

MaxLine == 5

(***************************************************************************)
(* Text helpers (JavaScript String methods)                                *)
(***************************************************************************)
Ws == {" ", "\n"}

RECURSIVE Flatten(_)
Flatten(ss) == IF ss = <<>> THEN <<>> ELSE Head(ss) \o Flatten(Tail(ss))

StartsWith(s, p) == Len(s) >= Len(p) /\ SubSeq(s, 1, Len(p)) = p

EndsWith(s, p) == Len(s) >= Len(p) /\ SubSeq(s, Len(s) - Len(p) + 1, Len(s)) = p

StartsAt(s, i, p) == i + Len(p) - 1 <= Len(s) /\ SubSeq(s, i, i + Len(p) - 1) = p

Drop(s, n) == SubSeq(s, n + 1, Len(s))

Min(S) == CHOOSE x \in S : \A y \in S : x <= y

Max(S) == CHOOSE x \in S : \A y \in S : y <= x

(* s.trim(): from the first to the last character that is not white space *)
Trim(s) ==
  LET ink == {i \in 1..Len(s) : s[i] \notin Ws}
  IN  IF ink = {} THEN <<>> ELSE SubSeq(s, Min(ink), Max(ink))

(* all texts over alphabet of length at most n *)
RECURSIVE TextsUpTo(_, _)
TextsUpTo(alphabet, n) ==
  IF n = 0 THEN {<<>>}
  ELSE LET shorter == TextsUpTo(alphabet, n - 1)
       IN  shorter \cup {Append(t, c) : t \in shorter, c \in alphabet}

(***************************************************************************)
(* Structured-response extraction: obtenerAnalisisIA, after the fetch      *)
(***************************************************************************)
(* the grave accent U+0060, which the lexer of TLA+ does not accept inside  *)
(* a string                                                                *)
Tick == "tick"

Fence == <<Tick, Tick, Tick>>

FenceJson == <<Tick, Tick, Tick, "j", "s", "o", "n">>

(* the global replace of the fence markers by the empty text: left to     *)
(* right, the marker with the word json tried first                        *)
RECURSIVE StripFencesFrom(_, _)
StripFencesFrom(s, i) ==
  LET js == {j \in i..Len(s) : StartsAt(s, j, Fence)}
  IN  IF js = {} THEN SubSeq(s, i, Len(s))
      ELSE SubSeq(s, i, Min(js) - 1)
             \o StripFencesFrom(s, Min(js) + (IF StartsAt(s, Min(js), FenceJson)
                                                THEN Len(FenceJson) ELSE Len(Fence)))

StripFences(s) == StripFencesFrom(s, 1)

(* The brace pattern: a run without open brace, a group from an open      *)
(* brace to a close brace, a run without close brace, the end of the text. *)
(* A match starting at p has its group start at the first open brace at or *)
(* after p and, the group being greedy, end at the last close brace.       *)
FirstOpenFrom(s, p) ==
  LET qs == {q \in p..Len(s) : s[q] = "{"}
  IN  IF qs = {} THEN 0 ELSE Min(qs)

LastClose(s) ==
  LET es == {e \in 1..Len(s) : s[e] = "}"}
  IN  IF es = {} THEN 0 ELSE Max(es)

MatchesAt(s, p) == FirstOpenFrom(s, p) /= 0 /\ FirstOpenFrom(s, p) < LastClose(s)

(* variant: the group is lazy and ends at the first close brace           *)
BraceExtractLazy(s) ==
  LET ps == {p \in 1..Len(s) : MatchesAt(s, p)}
      q  == FirstOpenFrom(s, Min(ps))
  IN  IF ps = {} THEN s
      ELSE SubSeq(s, 1, Min(ps) - 1)
             \o SubSeq(s, q, Min({e \in q..Len(s) : s[e] = "}"}))

(* the replace by the first group: the leftmost match is replaced         *)
BraceExtract(s) ==
  LET ps == {p \in 1..Len(s) : MatchesAt(s, p)}
  IN  IF ps = {} THEN s
      ELSE SubSeq(s, 1, Min(ps) - 1) \o SubSeq(s, FirstOpenFrom(s, Min(ps)), LastClose(s))

(* textoIA: the trimmed content, or the empty object text when empty      *)
TextoIA(content) == IF Trim(content) = <<>> THEN <<"{", "}">> ELSE Trim(content)

Limpio(content) == Trim(BraceExtract(StripFences(TextoIA(content))))

(***************************************************************************)
(* JSON values and JSON.parse                                              *)
(***************************************************************************)
JV(t, s, m) == [t |-> t, s |-> s, m |-> m]

JUndefined == JV("undefined", <<>>, <<>>)

JNull == JV("null", <<>>, <<>>)

JTrue == JV("true", <<>>, <<>>)

JStr(s) == JV("str", s, <<>>)

JNum(s) == JV("num", s, <<>>)

JObj(m) == JV("obj", <<>>, m)

JArr(m) == JV("arr", <<>>, m)

Member(k, v) == [k |-> k, v |-> v]

Digits == {"0", "5"}

PFail == [ok |-> FALSE, v |-> JUndefined, i |-> 0]

POk(v, i) == [ok |-> TRUE, v |-> v, i |-> i]

At(s, i) == IF i >= 1 /\ i <= Len(s) THEN s[i] ELSE "EOF"

(* the first index at or after i that holds no white space *)
SkipWs(s, i) == Min({j \in i..(Len(s) + 1) : At(s, j) \notin Ws})

(* the quote that closes a string whose content starts at i, 0 when a line *)
(* break or the end of the text comes first                                *)
CloseQuote(s, i) ==
  LET js == {j \in i..Len(s) : s[j] \in {"\"", "\n"}}
  IN  IF js = {} \/ s[Min(js)] = "\n" THEN 0 ELSE Min(js)

(* i is at the opening quote *)
ParseString(s, i) ==
  LET j == CloseQuote(s, i + 1)
  IN  IF At(s, i) /= "\"" \/ j = 0 THEN PFail
      ELSE POk(JStr(SubSeq(s, i + 1, j - 1)), j + 1)

DigitsEnd(s, i) == Min({j \in i..(Len(s) + 1) : At(s, j) \notin Digits})

ParseNumber(s, i) ==
  LET j == DigitsEnd(s, i)
  IN  IF j = i \/ (s[i] = "0" /\ j > i + 1) THEN PFail
      ELSE POk(JNum(SubSeq(s, i, j - 1)), j)

RECURSIVE ParseValue(_, _)
RECURSIVE ParseMembers(_, _, _)
RECURSIVE ParseElements(_, _, _)

ParseValue(s, i0) ==
  LET i == SkipWs(s, i0)
      c == At(s, i)
  IN  IF c = "{" THEN
        (IF At(s, SkipWs(s, i + 1)) = "}"
           THEN POk(JObj(<<>>), SkipWs(s, i + 1) + 1)
           ELSE ParseMembers(s, SkipWs(s, i + 1), <<>>))
      ELSE IF c = "[" THEN
        (IF At(s, SkipWs(s, i + 1)) = "]"
           THEN POk(JArr(<<>>), SkipWs(s, i + 1) + 1)
           ELSE ParseElements(s, i + 1, <<>>))
      ELSE IF c = "\"" THEN ParseString(s, i)
      ELSE IF c \in Digits THEN ParseNumber(s, i)
      ELSE IF StartsAt(s, i, <<"n", "u", "l", "l">>) THEN POk(JNull, i + 4)
      ELSE IF StartsAt(s, i, <<"t", "r", "u", "e">>) THEN POk(JTrue, i + 4)
      ELSE PFail

(* i is at the first character of a member's key *)
ParseMembers(s, i, acc) ==
  LET k == ParseString(s, i)
  IN  IF ~k.ok THEN PFail
      ELSE LET c == SkipWs(s, k.i)
           IN  IF At(s, c) /= ":" THEN PFail
               ELSE LET v == ParseValue(s, c + 1)
                    IN  IF ~v.ok THEN PFail
                        ELSE LET n   == SkipWs(s, v.i)
                                 out == Append(acc, Member(k.v.s, v.v))
                             IN  IF At(s, n) = "," THEN ParseMembers(s, SkipWs(s, n + 1), out)
                                 ELSE IF At(s, n) = "}" THEN POk(JObj(out), n + 1)
                                 ELSE PFail

ParseElements(s, i, acc) ==
  LET v == ParseValue(s, i)
  IN  IF ~v.ok THEN PFail
      ELSE LET n   == SkipWs(s, v.i)
               out == Append(acc, Member(<<>>, v.v))
           IN  IF At(s, n) = "," THEN ParseElements(s, n + 1, out)
               ELSE IF At(s, n) = "]" THEN POk(JArr(out), n + 1)
               ELSE PFail

(* JSON.parse: one value, then only white space *)
JsonParse(s) ==
  LET r == ParseValue(s, 1)
  IN  IF r.ok /\ SkipWs(s, r.i) = Len(s) + 1 THEN r ELSE PFail

ParseError == "Error al parsear respuesta de la IA"

(* the value obtenerAnalisisIA returns, or the error it throws *)
ExtraerJson(content) ==
  LET limpio == Limpio(content)
      r      == JsonParse(limpio)
  IN  IF r.ok THEN [ok |-> TRUE, v |-> r.v, error |-> "", parsed |-> limpio]
      ELSE [ok |-> FALSE, v |-> JUndefined, error |-> ParseError, parsed |-> limpio]

(***************************************************************************)
(* Markup translation: generarDocxDesdeMarkdown                            *)
(***************************************************************************)
(* texto.split("\n") *)
(* variant: blank lines are dropped from the split *)
LineasSinVacias(texto) ==
  LET brk == {i \in 1..Len(texto) : texto[i] = "\n"}
      cut == [k \in 0..(Cardinality(brk) + 1) |->
                IF k = 0 THEN 0
                ELSE IF k = Cardinality(brk) + 1 THEN Len(texto) + 1
                ELSE CHOOSE i \in brk : Cardinality({j \in brk : j < i}) = k - 1]
      all == [k \in 1..(Cardinality(brk) + 1) |-> SubSeq(texto, cut[k - 1] + 1, cut[k] - 1)]
  IN  SelectSeq(all, LAMBDA l : l /= <<>>)

Lineas(texto) ==
  LET brk == {i \in 1..Len(texto) : texto[i] = "\n"}
      (* the line breaks in order, between position 0 and the end *)
      cut == [k \in 0..(Cardinality(brk) + 1) |->
                IF k = 0 THEN 0
                ELSE IF k = Cardinality(brk) + 1 THEN Len(texto) + 1
                ELSE CHOOSE i \in brk : Cardinality({j \in brk : j < i}) = k - 1]
  IN  [k \in 1..(Cardinality(brk) + 1) |-> SubSeq(texto, cut[k - 1] + 1, cut[k] - 1)]

Stars == <<"*", "*">>

(* positions i of an opening pair of stars that has a closing pair at or    *)
(* after i + 2 on the same line                                             *)
BoldOpens(s) ==
  {i \in 1..Len(s) :
      /\ StartsAt(s, i, Stars)
      /\ \E j \in (i + 2)..Len(s) :
            /\ StartsAt(s, j, Stars)
            /\ \A k \in (i + 2)..(j - 1) : s[k] /= "\n"}

(* variant: the capture group is greedy *)
BoldCloseGreedy(s, i) ==
  CHOOSE j \in (i + 2)..Len(s) :
      /\ StartsAt(s, j, Stars)
      /\ \A k \in (j + 1)..Len(s) : ~StartsAt(s, k, Stars)

BoldClose(s, i) ==
  CHOOSE j \in (i + 2)..Len(s) :
      /\ StartsAt(s, j, Stars)
      /\ \A k \in (i + 2)..(j - 1) : ~StartsAt(s, k, Stars)

(* variant: the capture group takes the stars with it *)
RECURSIVE SplitBoldWithStars(_)
SplitBoldWithStars(s) ==
  IF BoldOpens(s) = {} THEN <<s>>
  ELSE LET i == Min(BoldOpens(s))
           j == BoldClose(s, i)
       IN  <<SubSeq(s, 1, i - 1), SubSeq(s, i, j + 1)>> \o SplitBoldWithStars(Drop(s, j + 1))

(* linea.split of the bold pattern with its lazy capture group: the text   *)
(* before a match, the captured text, and so on; the rest is the last part *)
RECURSIVE SplitBold(_)
SplitBold(s) ==
  IF BoldOpens(s) = {} THEN <<s>>
  ELSE LET i == Min(BoldOpens(s))
           j == BoldClose(s, i)
       IN  <<SubSeq(s, 1, i - 1), SubSeq(s, i + 2, j - 1)>> \o SplitBold(Drop(s, j + 1))

NoText == <<"<absent>">>

Run(text, bold, size, font) == [text |-> text, bold |-> bold, size |-> size, font |-> font]

Block(heading, alignment, after, text, children) ==
  [heading |-> heading, alignment |-> alignment, after |-> after,
   text |-> text, children |-> children]

(* revisions A and B: src/index.js *)
ParrafoAB(linea) ==
  IF StartsWith(linea, <<"#", "#", "#", " ">>)
    THEN Block("HEADING_3", "", 0, Drop(linea, 4), <<>>)
  ELSE IF StartsWith(linea, <<"#", "#", " ">>)
    THEN Block("HEADING_2", "", 0, Drop(linea, 3), <<>>)
  ELSE IF StartsWith(linea, <<"#", " ">>)
    THEN Block("HEADING_1", "", 0, Drop(linea, 2), <<>>)
  ELSE LET partes == SplitBold(linea)
       IN  Block("", "", 0, NoText,
                 [i \in 1..Len(partes) |->
                     IF i % 2 = 1 THEN Run(partes[i], FALSE, 0, "")
                                  ELSE Run(partes[i], TRUE, 0, "")])

Times == "Times New Roman"

(* revision C: src/unnamed/part_000 *)
ParrafoC(linea) ==
  LET textoLimpio == Trim(linea)
  IN  IF textoLimpio = <<>> THEN Block("", "", 0, <<>>, <<>>)
      ELSE IF StartsWith(textoLimpio, <<"#", " ">>)
        THEN Block("", "CENTER", 400, NoText,
                   <<Run(Drop(textoLimpio, 2), TRUE, 32, Times)>>)
      ELSE IF StartsWith(textoLimpio, <<"#", "#", " ">>)
        THEN Block("", "LEFT", 300, NoText,
                   <<Run(Drop(textoLimpio, 3), TRUE, 28, Times)>>)
      ELSE IF StartsWith(textoLimpio, <<"#", "#", "#", " ">>)
        THEN Block("", "LEFT", 250, NoText,
                   <<Run(Drop(textoLimpio, 4), TRUE, 28, Times)>>)
      ELSE LET partes == SplitBold(textoLimpio)
           IN  Block("", "JUSTIFIED", 150, NoText,
                     [i \in 1..Len(partes) |->
                         IF i % 2 = 1 THEN Run(partes[i], FALSE, 28, Times)
                                      ELSE Run(partes[i], TRUE, 28, Times)])

Parrafo(r, linea) == IF r = "C" THEN ParrafoC(linea) ELSE ParrafoAB(linea)

(* the children of the document's section: one paragraph per line *)
Contenido(r, texto) ==
  LET lineas == Lineas(texto)
  IN  [i \in 1..Len(lineas) |-> Parrafo(r, lineas[i])]

(* the text a paragraph shows: its text option, then its runs in order *)
BlockText(b) ==
  (IF b.text = NoText THEN <<>> ELSE b.text)
     \o Flatten([i \in 1..Len(b.children) |-> b.children[i].text])

(***************************************************************************)
(* Reading the analysis: property access, the || default, string           *)
(* conversion                                                              *)
(***************************************************************************)
Fields == {"nombre", "entidad", "valor", "fecha_resolucion", "fecha_ejecutoria",
           "tipo_titulo", "semaforo", "observacion"}
Key(f) ==
  CASE f = "nombre" -> <<"n", "o", "m", "b", "r", "e">>
    [] f = "entidad" -> <<"e", "n", "t", "i", "d", "a", "d">>
    [] f = "valor" -> <<"v", "a", "l", "o", "r">>
    [] f = "fecha_resolucion" -> <<"f", "e", "c", "h", "a", "_", "r", "e", "s", "o", "l", "u", "c", "i", "o", "n">>
    [] f = "fecha_ejecutoria" -> <<"f", "e", "c", "h", "a", "_", "e", "j", "e", "c", "u", "t", "o", "r", "i", "a">>
    [] f = "tipo_titulo" -> <<"t", "i", "p", "o", "_", "t", "i", "t", "u", "l", "o">>
    [] f = "semaforo" -> <<"s", "e", "m", "a", "f", "o", "r", "o">>
    [] f = "observacion" -> <<"o", "b", "s", "e", "r", "v", "a", "c", "i", "o", "n">>

(* json.f : the last member named f of an object, undefined otherwise      *)
(* (never applied to null, where the access throws)                        *)
Get(json, f) ==
  LET idx == {i \in 1..Len(json.m) : json.m[i].k = Key(f)}
  IN  IF json.t = "obj" /\ idx /= {}
        THEN json.m[CHOOSE i \in idx : \A j \in idx : j <= i].v
        ELSE JUndefined

Truthy(v) ==
  /\ v.t \notin {"undefined", "null"}
  /\ ~(v.t = "str" /\ v.s = <<>>)
  /\ ~(v.t = "num" /\ v.s = <<"0">>)

(* v || d *)
OrElse(v, d) == IF Truthy(v) THEN v ELSE d

RECURSIVE ToText(_)
RECURSIVE JoinText(_)
(* the string conversion of a template literal *)
ToText(v) ==
  CASE v.t = "str" -> v.s
    [] v.t = "num" -> v.s
    [] v.t = "true" -> <<"t", "r", "u", "e">>
    [] v.t = "null" -> <<"n", "u", "l", "l">>
    [] v.t = "undefined" -> <<"u", "n", "d", "e", "f", "i", "n", "e", "d">>
    [] v.t = "obj" -> <<"[", "o", "b", "j", "e", "c", "t", " ", "O", "b", "j", "e", "c", "t", "]">>
    [] v.t = "arr" -> JoinText(v.m)

JoinText(m) ==
  IF m = <<>> THEN <<>>
  ELSE (IF Head(m).v.t \in {"null", "undefined"} THEN <<>> ELSE ToText(Head(m).v))
         \o (IF Len(m) > 1 THEN <<",">> \o JoinText(Tail(m)) ELSE <<>>)
Rojo ==
  <<"R", "O", "J", "O">>
Verde ==
  <<"V", "E", "R", "D", "E">>

Amarillo ==
  <<"A", "M", "A", "R", "I", "L", "L", "O">>

NoDisponible ==
  <<"N", "o", " ", "d", "i", "s", "p", "o", "n", "i", "b", "l", "e">>

(* the object passed to update() by actualizarExpediente *)
FilaActualizada(json) ==
  [titulo        |-> OrElse(Get(json, "tipo_titulo"), JStr(<<>>)),
   semaforo      |-> OrElse(Get(json, "semaforo"), JStr(Rojo)),
   observaciones |-> OrElse(Get(json, "observacion"), JStr(<<>>))]

(* revision C, and B had it run: the data lines of the drafting prompt *)
FormatearAnalisisComoTexto(a) ==
  [f \in Fields |-> JStr(ToText(OrElse(Get(a, f), JStr(NoDisponible))))]

(* revision A: the analysis is embedded as its JSON text, so a field shows  *)
(* its own value and an absent field does not show                         *)
DatosJson(a) == [f \in Fields |-> Get(a, f)]

(***************************************************************************)
(* Inputs of the request handler                                           *)
(***************************************************************************)
ContenidoCompleto ==
  <<"C", "l", "a", "r", "o", ":", "\n", Tick, Tick, Tick, "j", "s", "o",
    "n", "\n", "{", "\"", "t", "i", "p", "o", "_", "t", "i", "t", "u", "l",
    "o", "\"", ":", "\"", "R", "E", "S", "\"", ",", "\"", "s", "e", "m",
    "a", "f", "o", "r", "o", "\"", ":", "\"", "V", "E", "R", "D", "E",
    "\"", ",", "\"", "o", "b", "s", "e", "r", "v", "a", "c", "i", "o", "n",
    "\"", ":", "\"", "o", "k", "\"", "}", "\n", Tick, Tick, Tick, "\n",
    "F", "i", "n">>

ContenidoNaranja ==
  <<"{", "\"", "s", "e", "m", "a", "f", "o", "r", "o", "\"", ":", "\"",
    "N", "A", "R", "A", "N", "J", "A", "\"", "}">>

ContenidoVacioObj ==
  <<"{", "}">>

ContenidoVacio ==
  <<" ">>

ContenidoNumero ==
  <<"5">>

ContenidoNull ==
  <<"n", "u", "l", "l">>

ContenidoProsa ==
  <<"N", "o", " ", "p", "u", "e", "d", "o">>

ContenidoNulos ==
  <<"{", "\"", "s", "e", "m", "a", "f", "o", "r", "o", "\"", ":", "\"",
    "\"", ",", "\"", "o", "b", "s", "e", "r", "v", "a", "c", "i", "o", "n",
    "\"", ":", "n", "u", "l", "l", ",", "\"", "t", "i", "p", "o", "_", "t",
    "i", "t", "u", "l", "o", "\"", ":", "\"", "R", "E", "S", "\"", "}">>

ContenidoRojo ==
  <<"{", "\"", "s", "e", "m", "a", "f", "o", "r", "o", "\"", ":", "\"",
    "R", "O", "J", "O", "\"", ",", "\"", "o", "b", "s", "e", "r", "v", "a",
    "c", "i", "o", "n", "\"", ":", "\"", "m", "a", "l", "\"", "}">>

AnalysisContents ==
  {ContenidoCompleto,
   ContenidoNaranja,
   ContenidoVacioObj,
   ContenidoVacio,
   ContenidoNumero,
   ContenidoNull,
   ContenidoProsa,
   ContenidoNulos,
   ContenidoRojo}

BorradorTitulo ==
  <<"#", " ", "T", "i", "t", "l", "e", "\n", "\n", "*", "*", "B", "o", "l",
    "d", "*", "*", " ", "a", "n", "d", " ", "p", "l", "a", "i", "n">>

BorradorEspacios ==
  <<"#", "#", " ", "A", " ", "\n", " ", "x", " ", "*", "*", "b", "*", "*",
    "\n">>

BorradorVacio ==
  <<>>

DraftContents == {BorradorTitulo, BorradorEspacios, BorradorVacio}

RutaPdf ==
  <<"a", ".", "p", "d", "f">>

RutaPdfMayus ==
  <<"a", ".", "P", "D", "F">>

RutaDocx ==
  <<"a", ".", "D", "o", "c", "X">>

RutaTxt ==
  <<"a", ".", "t", "x", "t">>

RutaSinPunto ==
  <<"p", "d", "f">>

Rutas == {RutaPdf, RutaPdfMayus, RutaDocx, RutaTxt, RutaSinPunto}

ExpedienteIds == {"e1", "e2"}

UserIds == {"u1", "u2"}

Bodies == [expediente_id : ExpedienteIds, archivo_path : Rutas, user_id : UserIds]

DownloadErrors == {"Object not found"}

ExtractionErrors == {"Invalid PDF structure"}

(* data.error.message of the provider's error envelope; "" is an envelope  *)
(* without a message                                                        *)
ProviderMessages == {"Rate limit exceeded", ""}

UpdateErrors == {"permission denied for table expedientes"}

RenderErrors == {"Packer failed"}

UploadErrors == {"Bucket not found"}

(***************************************************************************)
(* Text extraction dispatch: extraerTexto                                  *)
(***************************************************************************)
Lower(c) ==
  CASE c = "P" -> "p" [] c = "D" -> "d" [] c = "F" -> "f" [] c = "O" -> "o"
    [] c = "C" -> "c" [] c = "X" -> "x" [] c = "T" -> "t" [] c = "A" -> "a"
    [] OTHER -> c

ToLowerCase(s) == [i \in 1..Len(s) |-> Lower(s[i])]

(* variant: the suffix is compared without lowering the path *)
FormatoSensible(archivo_path) ==
  IF EndsWith(archivo_path, <<".", "p", "d", "f">>) THEN "pdf"
  ELSE IF EndsWith(archivo_path, <<".", "d", "o", "c", "x">>) THEN "docx"
  ELSE "unsupported"

Formato(archivo_path) ==
  IF EndsWith(ToLowerCase(archivo_path), <<".", "p", "d", "f">>) THEN "pdf"
  ELSE IF EndsWith(ToLowerCase(archivo_path), <<".", "d", "o", "c", "x">>) THEN "docx"
  ELSE "unsupported"

UnsupportedFormat == "Formato de archivo no soportado"

(***************************************************************************)
(* The request handler: app.post("/procesar")                              *)
(***************************************************************************)
Requests == {"r1", "r2"}

NoBody == [expediente_id |-> "", archivo_path |-> <<>>, user_id |-> ""]

NoDatos == [f \in Fields |-> JUndefined]

FilaInicial == [titulo |-> JNull, semaforo |-> JNull, observaciones |-> JNull]

Call(op, result) == [op |-> op, result |-> result]

Resp200(a, url) ==
  [status |-> 200, ok |-> TRUE, analisis |-> a, docxUrl |-> url, error |-> ""]

Resp500(msg) ==
  [status |-> 500, ok |-> FALSE, analisis |-> JUndefined, docxUrl |-> <<>>, error |-> msg]

FilePath(user_id, expediente_id) == <<"mandamientos", user_id, expediente_id>>

FilePaths == {FilePath(u, e) : u \in UserIds, e \in ExpedienteIds}

TextoDe(archivo_path) == <<"t", "x", "t">>

OpenRouterError(message) == IF message = "" THEN "Error en OpenRouter" ELSE message

(* variant: the error is answered and the failed stage is tried again *)
CatchAndRetry(r, msg) ==
  /\ pc' = pc
  /\ resp' = [resp EXCEPT ![r] = Append(@, Resp500(msg))]

(* the catch block: the error is logged and answered with status 500 *)
Catch(r, msg) ==
  /\ pc' = [pc EXCEPT ![r] = "done"]
  /\ resp' = [resp EXCEPT ![r] = Append(@, Resp500(msg))]

Idle ==
  /\ pc = [r \in Requests |-> "idle"]
  /\ req = [r \in Requests |-> NoBody]
  /\ textoExtraido = [r \in Requests |-> <<>>]
  /\ analisis = [r \in Requests |-> JUndefined]
  /\ prompt = [r \in Requests |-> NoDatos]
  /\ textoMandamiento = [r \in Requests |-> <<>>]
  /\ docx = [r \in Requests |-> <<>>]
  /\ docxUrl = [r \in Requests |-> <<>>]
  /\ resp = [r \in Requests |-> <<>>]
  /\ calls = [r \in Requests |-> <<>>]
  /\ hist = [r \in Requests |-> <<>>]
  /\ db = [e \in ExpedienteIds |-> FilaInicial]
  /\ storage = [p \in FilePaths |-> <<"none">>]

(* a model response: prose, fence, object text, fence, prose *)
ExInput(lead, open, obj, close, trail) ==
  [lead |-> lead, obj |-> obj, trail |-> trail,
   text |-> lead \o open \o obj \o close \o trail]

NoPure ==
  /\ exIn = ExInput(<<>>, <<>>, <<>>, <<>>, <<>>)
  /\ exOut = [done |-> FALSE, ok |-> FALSE, v |-> JUndefined, error |-> "", parsed |-> <<>>]
  /\ mdIn = <<>>
  /\ mdOut = [done |-> FALSE, contenido |-> <<>>]

handlerVars == <<pc, req, textoExtraido, analisis, prompt, textoMandamiento,
                 docx, docxUrl, resp, calls, hist, db, storage>>

pureVars == <<exIn, exOut, mdIn, mdOut>>

Init ==
  /\ rev \in Revisions
  /\ Idle
  /\ NoPure

(* the request arrives: the body is read and the download is started *)
Procesar(r, body) ==
  /\ pc[r] = "idle"
  /\ req' = [req EXCEPT ![r] = body]
  /\ pc' = [pc EXCEPT ![r] = "download"]
  /\ UNCHANGED <<rev, textoExtraido, analisis, prompt, textoMandamiento, docx,
                 docxUrl, resp, calls, hist, db, storage, pureVars>>

(* variant: the error of the download is not thrown *)
DescargarSinThrow(r, error) ==
  /\ pc[r] = "download"
  /\ calls' = [calls EXCEPT ![r] = Append(@, Call("download", error))]
  /\ pc' = [pc EXCEPT ![r] = "extraer"]
  /\ hist' = [hist EXCEPT ![r] = Append(@, "Downloaded")]
  /\ UNCHANGED resp
  /\ UNCHANGED <<rev, req, textoExtraido, analisis, prompt, textoMandamiento,
                 docx, docxUrl, db, storage, pureVars>>

(* supabase.storage.from("expedientes").download(archivo_path) *)
Descargar(r, error) ==
  /\ pc[r] = "download"
  /\ calls' = [calls EXCEPT ![r] = Append(@, Call("download", error))]
  /\ IF error /= "ok"
       THEN Catch(r, error) /\ UNCHANGED hist
       ELSE /\ pc' = [pc EXCEPT ![r] = "extraer"]
            /\ hist' = [hist EXCEPT ![r] = Append(@, "Downloaded")]
            /\ UNCHANGED resp
  /\ UNCHANGED <<rev, req, textoExtraido, analisis, prompt, textoMandamiento,
                 docx, docxUrl, db, storage, pureVars>>

(* extraerTexto(buffer, archivo_path) *)
ExtraerTexto(r, error) ==
  /\ pc[r] = "extraer"
  /\ IF Formato(req[r].archivo_path) = "unsupported"
       THEN /\ Catch(r, UnsupportedFormat)
            /\ UNCHANGED <<calls, hist, textoExtraido>>
       ELSE /\ calls' = [calls EXCEPT ![r] =
                           Append(@, Call(Formato(req[r].archivo_path), error))]
            /\ IF error /= "ok"
                 THEN Catch(r, error) /\ UNCHANGED <<hist, textoExtraido>>
                 ELSE /\ textoExtraido' =
                           [textoExtraido EXCEPT ![r] = TextoDe(req[r].archivo_path)]
                      /\ pc' = [pc EXCEPT ![r] = "analizar"]
                      /\ hist' = [hist EXCEPT ![r] = Append(@, "TextExtracted")]
                      /\ UNCHANGED resp
  /\ UNCHANGED <<rev, req, analisis, prompt, textoMandamiento, docx, docxUrl,
                 db, storage, pureVars>>

FailSafe == JObj(<<Member(Key("semaforo"), JStr(Rojo))>>)

(* variant: an answer that cannot be parsed is replaced by a red record *)
ObtenerAnalisisIAFailSafe(r, envelope, content) ==
  /\ pc[r] = "analizar"
  /\ IF envelope
       THEN /\ calls' = [calls EXCEPT ![r] =
                           Append(@, Call("complete_analysis", OpenRouterError(content)))]
            /\ Catch(r, OpenRouterError(content))
            /\ UNCHANGED <<hist, analisis>>
       ELSE /\ calls' = [calls EXCEPT ![r] =
                           Append(@, Call("complete_analysis", "ok"))]
            /\ LET out == ExtraerJson(content)
               IN  /\ analisis' = [analisis EXCEPT ![r] = IF out.ok THEN out.v ELSE FailSafe]
                   /\ pc' = [pc EXCEPT ![r] = "actualizar"]
                   /\ hist' = [hist EXCEPT ![r] = Append(@, IF out.ok THEN "Analyzed" ELSE "FailSafe")]
                   /\ UNCHANGED resp
  /\ UNCHANGED <<rev, req, textoExtraido, prompt, textoMandamiento, docx,
                 docxUrl, db, storage, pureVars>>

(* obtenerAnalisisIA(textoExtraido): the provider answers with an error    *)
(* envelope (envelope = TRUE, content its message) or with a completion    *)
ObtenerAnalisisIA(r, envelope, content) ==
  /\ pc[r] = "analizar"
  /\ IF envelope
       THEN /\ calls' = [calls EXCEPT ![r] =
                           Append(@, Call("complete_analysis", OpenRouterError(content)))]
            /\ Catch(r, OpenRouterError(content))
            /\ UNCHANGED <<hist, analisis>>
       ELSE /\ calls' = [calls EXCEPT ![r] =
                           Append(@, Call("complete_analysis", "ok"))]
            /\ LET out == ExtraerJson(content)
               IN  IF ~out.ok
                     THEN Catch(r, out.error) /\ UNCHANGED <<hist, analisis>>
                     ELSE /\ analisis' = [analisis EXCEPT ![r] = out.v]
                          /\ pc' = [pc EXCEPT ![r] = "actualizar"]
                          /\ hist' = [hist EXCEPT ![r] = Append(@, "Analyzed")]
                          /\ UNCHANGED resp
  /\ UNCHANGED <<rev, req, textoExtraido, prompt, textoMandamiento, docx,
                 docxUrl, db, storage, pureVars>>

NullAccess == "Cannot read properties of null (reading 'tipo_titulo')"

(* variant: the error of the update is not thrown *)
ActualizarSinThrow(r, error) ==
  /\ pc[r] = "actualizar"
  /\ IF analisis[r].t = "null"
       THEN Catch(r, NullAccess) /\ UNCHANGED <<calls, hist, db>>
       ELSE /\ calls' = [calls EXCEPT ![r] = Append(@, Call("update_case", error))]
            /\ pc' = [pc EXCEPT ![r] = "generar"]
            /\ UNCHANGED resp
            /\ IF error /= "ok"
                 THEN UNCHANGED <<hist, db>>
                 ELSE /\ db' = [db EXCEPT ![req[r].expediente_id] =
                                   FilaActualizada(analisis[r])]
                      /\ hist' = [hist EXCEPT ![r] = Append(@, "Persisted")]
  /\ UNCHANGED <<rev, req, textoExtraido, analisis, prompt, textoMandamiento,
                 docx, docxUrl, storage, pureVars>>

(* actualizarExpediente(expediente_id, analisis) *)
ActualizarExpediente(r, error) ==
  /\ pc[r] = "actualizar"
  /\ IF analisis[r].t = "null"
       THEN Catch(r, NullAccess) /\ UNCHANGED <<calls, hist, db>>
       ELSE /\ calls' = [calls EXCEPT ![r] = Append(@, Call("update_case", error))]
            /\ IF error /= "ok"
                 THEN Catch(r, error) /\ UNCHANGED <<hist, db>>
                 ELSE /\ db' = [db EXCEPT ![req[r].expediente_id] =
                                   FilaActualizada(analisis[r])]
                      /\ pc' = [pc EXCEPT ![r] = "generar"]
                      /\ hist' = [hist EXCEPT ![r] = Append(@, "Persisted")]
                      /\ UNCHANGED resp
  /\ UNCHANGED <<rev, req, textoExtraido, analisis, prompt, textoMandamiento,
                 docx, docxUrl, storage, pureVars>>

NotDefined == "analisis is not defined"

(* the data lines of the drafting prompt, per revision *)
DatosPrompt(v, a) == IF v = "A" THEN DatosJson(a) ELSE FormatearAnalisisComoTexto(a)

(* generarDocumentoIA(analisis, textoExtraido); in revision B the          *)
(* parameter is named texto and the body reads the undeclared analisis     *)
GenerarDocumentoIA(r, envelope, content) ==
  /\ pc[r] = "generar"
  /\ IF rev = "B"
       THEN /\ Catch(r, NotDefined)
            /\ UNCHANGED <<calls, hist, prompt, textoMandamiento>>
       ELSE /\ prompt' = [prompt EXCEPT ![r] = DatosPrompt(rev, analisis[r])]
            /\ IF envelope
                 THEN /\ calls' = [calls EXCEPT ![r] =
                                     Append(@, Call("complete_draft", OpenRouterError(content)))]
                      /\ Catch(r, OpenRouterError(content))
                      /\ UNCHANGED <<hist, textoMandamiento>>
                 ELSE /\ calls' = [calls EXCEPT ![r] =
                                     Append(@, Call("complete_draft", "ok"))]
                      /\ textoMandamiento' = [textoMandamiento EXCEPT ![r] = Trim(content)]
                      /\ pc' = [pc EXCEPT ![r] = "docx"]
                      /\ hist' = [hist EXCEPT ![r] = Append(@, "Drafted")]
                      /\ UNCHANGED resp
  /\ UNCHANGED <<rev, req, textoExtraido, analisis, docx, docxUrl, db, storage,
                 pureVars>>

(* generarDocxDesdeMarkdown(textoMandamiento): the paragraphs, then the    *)
(* packing of the document into a buffer                                   *)
GenerarDocxDesdeMarkdown(r, error) ==
  /\ pc[r] = "docx"
  /\ calls' = [calls EXCEPT ![r] = Append(@, Call("render", error))]
  /\ IF error /= "ok"
       THEN Catch(r, error) /\ UNCHANGED <<hist, docx>>
       ELSE /\ docx' = [docx EXCEPT ![r] = Contenido(rev, textoMandamiento[r])]
            /\ pc' = [pc EXCEPT ![r] = "subir"]
            /\ hist' = [hist EXCEPT ![r] = Append(@, "Rendered")]
            /\ UNCHANGED resp
  /\ UNCHANGED <<rev, req, textoExtraido, analisis, prompt, textoMandamiento,
                 docxUrl, db, storage, pureVars>>

(* variant: a failed upload resets the row of the case *)
SubirConRollback(r, error) ==
  /\ pc[r] = "subir"
  /\ calls' = [calls EXCEPT ![r] = Append(@, Call("upload", error))]
  /\ IF error /= "ok"
       THEN /\ Catch(r, error)
            /\ db' = [db EXCEPT ![req[r].expediente_id] = FilaInicial]
            /\ UNCHANGED <<hist, storage, docxUrl>>
       ELSE LET filePath == FilePath(req[r].user_id, req[r].expediente_id)
            IN  /\ storage' = [storage EXCEPT ![filePath] = docx[r]]
                /\ docxUrl' = [docxUrl EXCEPT ![r] = filePath]
                /\ hist' = [hist EXCEPT ![r] = @ \o <<"Uploaded", "Recorded">>]
                /\ resp' = [resp EXCEPT ![r] = Append(@, Resp200(analisis[r], filePath))]
                /\ pc' = [pc EXCEPT ![r] = "done"]
                /\ db' = db
  /\ UNCHANGED <<rev, req, textoExtraido, analisis, prompt, textoMandamiento,
                 docx, pureVars>>

(* subirADirectorioSupabase(docxBuffer, user_id, expediente_id), then the  *)
(* 200 response                                                            *)
SubirADirectorioSupabase(r, error) ==
  /\ pc[r] = "subir"
  /\ calls' = [calls EXCEPT ![r] = Append(@, Call("upload", error))]
  /\ IF error /= "ok"
       THEN Catch(r, error) /\ UNCHANGED <<hist, storage, docxUrl>>
       ELSE LET filePath == FilePath(req[r].user_id, req[r].expediente_id)
            IN  /\ storage' = [storage EXCEPT ![filePath] = docx[r]]
                /\ docxUrl' = [docxUrl EXCEPT ![r] = filePath]
                /\ hist' = [hist EXCEPT ![r] = @ \o <<"Uploaded", "Recorded">>]
                /\ resp' = [resp EXCEPT ![r] = Append(@, Resp200(analisis[r], filePath))]
                /\ pc' = [pc EXCEPT ![r] = "done"]
  /\ UNCHANGED <<rev, req, textoExtraido, analisis, prompt, textoMandamiento,
                 docx, db, pureVars>>

Step(r) ==
  \/ \E body \in Bodies : Procesar(r, body)
  \/ \E error \in {"ok"} \cup DownloadErrors : Descargar(r, error)
  \/ \E error \in {"ok"} \cup ExtractionErrors : ExtraerTexto(r, error)
  \/ \E content \in AnalysisContents : ObtenerAnalisisIA(r, FALSE, content)
  \/ \E message \in ProviderMessages : ObtenerAnalisisIA(r, TRUE, message)
  \/ \E error \in {"ok"} \cup UpdateErrors : ActualizarExpediente(r, error)
  \/ \E content \in DraftContents : GenerarDocumentoIA(r, FALSE, content)
  \/ \E message \in ProviderMessages : GenerarDocumentoIA(r, TRUE, message)
  \/ \E error \in {"ok"} \cup RenderErrors : GenerarDocxDesdeMarkdown(r, error)
  \/ \E error \in {"ok"} \cup UploadErrors : SubirADirectorioSupabase(r, error)

Next == Step("r1")

Spec == Init /\ [][Next]_vars

(***************************************************************************)
(* The extraction alone, over bounded model responses                      *)
(***************************************************************************)
ExAlphabet == {"{", "}", "\"", "5", "[", "]", " ", "a"}

ShortTexts == TextsUpTo(ExAlphabet, MaxShort) \cup {<<"n", "u", "l", "l">>, <<"t", "r", "u", "e">>}

LeadProse == {<<>>, <<"H", "i", ":", " ">>, <<"a", "}", "b", " ">>, <<"u", "s", "e", " ", "{", "}", " ">>}

TrailProse == {<<>>, <<" ", "o", "k">>, <<" ", "c", "{", "d">>, <<" ", "{", "x", "}">>}

OpenFences == {<<>>, FenceJson \o <<"\n">>, Fence}

CloseFences == {<<>>, <<"\n">> \o Fence}

ObjectTexts ==
  {<<"{", "}">>,
   <<"{", "\"", "a", "\"", ":", "\"", "5", "\"", "}">>,
   <<"{", "\"", "a", "\"", ":", "\"", "5", "\"", ",", " ", "\"", "b", "\"", ":", "{", "\"", "c", "\"", ":", "n", "u", "l", "l", "}", "}">>,
   <<"{", " ", "\"", "a", "\"", " ", ":", " ", "[", "5", ",", " ", "t", "r", "u", "e", "]", " ", "}">>,
   <<"{", "\"", "a", "\"", ":", "\"">> \o Fence \o <<"\"", "}">>}

ExtractInputs ==
  {ExInput(<<>>, <<>>, <<>>, <<>>, t) : t \in ShortTexts}
    \cup {ExInput(l, o, j, c, t) : l \in LeadProse, o \in OpenFences,
                                  j \in ObjectTexts, c \in CloseFences, t \in TrailProse}

InitExtract ==
  /\ rev \in Revisions
  /\ Idle
  /\ exIn \in ExtractInputs
  /\ exOut = [done |-> FALSE, ok |-> FALSE, v |-> JUndefined, error |-> "", parsed |-> <<>>]
  /\ mdIn = <<>>
  /\ mdOut = [done |-> FALSE, contenido |-> <<>>]

(* the part of obtenerAnalisisIA after the provider's answer *)
AnalizarRespuesta ==
  /\ ~exOut.done
  /\ exOut' = [done |-> TRUE] @@ ExtraerJson(exIn.text)
  /\ UNCHANGED <<rev, handlerVars, exIn, mdIn, mdOut>>

NextExtract == AnalizarRespuesta

SpecExtract == InitExtract /\ [][NextExtract]_vars

(***************************************************************************)
(* The translation alone, over bounded drafts                              *)
(***************************************************************************)
MdAlphabet == {"#", " ", "*", "a", "\n"}

MdContents ==
  TextsUpTo(MdAlphabet, MaxLine)
    \cup {BorradorTitulo, BorradorEspacios,
          <<"#", " ", "*", "*", "a", "*", "*">>,
          <<"*", "*", "a", "*", "*", " ", "b", " ", "*", "*", "\n", " ", "#", "#", "#", " ", "a">>}

InitTranslate ==
  /\ rev \in Revisions
  /\ Idle
  /\ exIn = ExInput(<<>>, <<>>, <<>>, <<>>, <<>>)
  /\ exOut = [done |-> FALSE, ok |-> FALSE, v |-> JUndefined, error |-> "", parsed |-> <<>>]
  /\ \E content \in MdContents : mdIn = Trim(content)
  /\ mdOut = [done |-> FALSE, contenido |-> <<>>]

(* the paragraphs generarDocxDesdeMarkdown builds for the draft *)
Traducir ==
  /\ ~mdOut.done
  /\ mdOut' = [done |-> TRUE, contenido |-> Contenido(rev, mdIn)]
  /\ UNCHANGED <<rev, handlerVars, exIn, exOut, mdIn>>

NextTranslate == Traducir

SpecTranslate == InitTranslate /\ [][NextTranslate]_vars

(***************************************************************************)
(* Properties of the request handler                                       *)
(***************************************************************************)
Done(r) == pc[r] = "done"

Ops(r) == {calls[r][i].op : i \in 1..Len(calls[r])}

Count(r, op) == Cardinality({i \in 1..Len(calls[r]) : calls[r][i].op = op})

Succeeded(r, op) == \E i \in 1..Len(calls[r]) : calls[r][i] = Call(op, "ok")

FailedAt(r) == {i \in 1..Len(calls[r]) : calls[r][i].result /= "ok"}

Stages ==
  <<"Downloaded", "TextExtracted", "Analyzed", "Persisted", "Drafted",
    "Rendered", "Uploaded", "Recorded">>

Reached(r, stage) == \E i \in 1..Len(hist[r]) : hist[r][i] = stage

(* every collaborator did its part: the file has a supported format, no    *)
(* call reported an error, and the model's answer held a JSON object       *)
CollaboratorsOk(r) ==
  /\ Formato(req[r].archivo_path) /= "unsupported"
  /\ FailedAt(r) = {}
  /\ analisis[r].t = "obj"

(* C1: a finished request has exactly one response, which is the 200       *)
(* response exactly when all eight stages succeeded and the 500 response   *)
(* otherwise; a request whose collaborators all succeed ends with 200.     *)
C1_OneResponsePerOutcome ==
  \A r \in Requests :
    Done(r) =>
      /\ Len(resp[r]) = 1
      /\ resp[r][1].status \in {200, 500}
      /\ resp[r][1].status = 200 <=> hist[r] = Stages
      /\ resp[r][1].status = 200 <=> resp[r][1].ok
      /\ CollaboratorsOk(r) => resp[r][1].status = 200

DownloadFailed(r) ==
  /\ calls[r] /= <<>>
  /\ calls[r][1].op = "download"
  /\ calls[r][1].result /= "ok"

(* C2: when the download fails, the download is the only collaborator call *)
(* of the request (no model call, no update, no upload), the table and the *)
(* bucket are untouched, and the response is the 500 response with the     *)
(* download error's message.                                               *)
C2_DownloadFailureStopsRequest ==
  \A r \in Requests :
    DownloadFailed(r) =>
      /\ Len(calls[r]) = 1
      /\ Ops(r) \cap {"complete_analysis", "complete_draft", "update_case", "upload"} = {}
      /\ db = [e \in ExpedienteIds |-> FilaInicial]
      /\ storage = [p \in FilePaths |-> <<"none">>]
      /\ resp[r] = <<Resp500(calls[r][1].result)>>
      /\ calls[r][1].result \in DownloadErrors

C2_Witness == \E r \in Requests : Done(r) /\ DownloadFailed(r)

(* C3: each collaborator operation is invoked at most once per request; a  *)
(* failed call is the last call of its request, and the request has then   *)
(* ended with the single 500 response carrying that error; a request that  *)
(* has answered 500 has ended.                                             *)
C3_NoRetryFailureTerminal ==
  \A r \in Requests :
    /\ \A op \in {"download", "pdf", "docx", "complete_analysis", "update_case",
                  "complete_draft", "render", "upload"} : Count(r, op) <= 1
    /\ Len(resp[r]) <= 1
    /\ \A i \in FailedAt(r) :
          /\ i = Len(calls[r])
          /\ Done(r)
          /\ resp[r] = <<Resp500(calls[r][i].result)>>
    /\ (resp[r] /= <<>> /\ resp[r][1].status = 500) => Done(r)

C3_Witness ==
  \E r \in Requests :
    /\ Done(r)
    /\ Len(calls[r]) >= 4
    /\ FailedAt(r) = {Len(calls[r])}
    /\ calls[r][Len(calls[r])].op = "complete_draft"

(* C4: once the update of the analysis has succeeded, the row keeps the    *)
(* written titulo, semaforo and observaciones for the rest of the request, *)
(* also when a later stage fails and the request ends with 500.            *)
C4_NoRollback ==
  \A r \in Requests :
    Succeeded(r, "update_case") =>
      /\ db[req[r].expediente_id].titulo = OrElse(Get(analisis[r], "tipo_titulo"), JStr(<<>>))
      /\ db[req[r].expediente_id].semaforo = OrElse(Get(analisis[r], "semaforo"), JStr(Rojo))
      /\ db[req[r].expediente_id].observaciones =
            OrElse(Get(analisis[r], "observacion"), JStr(<<>>))

C4_Witness ==
  \E r \in Requests :
    /\ Done(r)
    /\ Succeeded(r, "update_case")
    /\ resp[r][1].status = 500
    /\ db[req[r].expediente_id].semaforo = JStr(Verde)

StatusFlags == {JStr(Verde), JStr(Amarillo), JStr(Rojo)}

(* the status the record carries, with the default of the persistence      *)
StatusFlag(a) == OrElse(Get(a, "semaforo"), JStr(Rojo))

(* C5: a request whose analysis carries a status flag other than the three *)
(* known ones makes no drafting call, renders nothing, uploads nothing,    *)
(* and ends with the 500 response.                                         *)
C5_UnrecognizedStatusFails ==
  \A r \in Requests :
    (Reached(r, "Analyzed") /\ StatusFlag(analisis[r]) \notin StatusFlags) =>
      /\ Ops(r) \cap {"complete_draft", "render", "upload"} = {}
      /\ Done(r) => resp[r][1].status = 500

(***************************************************************************)
(* Properties of the extraction                                            *)
(***************************************************************************)
NoBracePair(s) ==
  ~\E i, j \in 1..Len(s) : i < j /\ s[i] = "{" /\ s[j] = "}"

(* C6: for a response text without an open brace followed by a close       *)
(* brace, the extraction fails with the parse error.                       *)
C6_NoBracesFails ==
  (exOut.done /\ NoBracePair(exIn.text)) =>
     (~exOut.ok /\ exOut.error = ParseError)

Contains(s, sub) == \E i \in 1..Len(s) : StartsAt(s, i, sub)

IsWrapped(in) == in.obj /= <<>>

(* from the first open brace to the last close brace of s *)
Between(s) ==
  SubSeq(s, Min({i \in 1..Len(s) : s[i] = "{"}), Max({i \in 1..Len(s) : s[i] = "}"}))

RecoversObject(in, out) ==
  /\ out.parsed = Between(StripFences(Trim(in.text)))
  /\ out.ok
  /\ out.v = JsonParse(in.obj).v

(* C7 as stated: for every response made of prose, fence markers, one      *)
(* well-formed object and prose, the parser is given the text from the     *)
(* first open brace to the last close brace of the fence-stripped text and *)
(* the extraction returns that object.                                     *)
C7_Original == (exOut.done /\ IsWrapped(exIn)) => RecoversObject(exIn, exOut)

(* C7 amended: the same, for leading prose without open brace, trailing    *)
(* prose without close brace and an object text that contains no fence     *)
(* marker.                                                                 *)
C7_RecoversWrappedObject ==
  (/\ exOut.done
   /\ IsWrapped(exIn)
   /\ ~Contains(exIn.lead, <<"{">>)
   /\ ~Contains(exIn.trail, <<"}">>)
   /\ ~Contains(exIn.obj, Fence)) => RecoversObject(exIn, exOut)

C7_Witness ==
  /\ exOut.done
  /\ exIn.lead = <<"H", "i", ":", " ">>
  /\ exIn.trail = <<" ", "c", "{", "d">>
  /\ Contains(exIn.text, FenceJson)
  /\ exOut.ok
  /\ Len(exOut.v.m) = 2
  /\ exOut.v.m[2].v.t = "obj"

(* the analysis call answered, and its answer could not be parsed *)
ParseFailed(r) == Succeeded(r, "complete_analysis") /\ ~Reached(r, "Analyzed")

(* C8 as stated: after a parse failure of the analysis answer the request  *)
(* goes on: a record with the red status is persisted and the drafting     *)
(* call is made.                                                           *)
C8_Original ==
  \A r \in Requests :
    (Done(r) /\ ParseFailed(r)) =>
      /\ Succeeded(r, "update_case")
      /\ db[req[r].expediente_id].semaforo = JStr(Rojo)
      /\ Count(r, "complete_draft") = 1

(* C8 amended: a parse failure of the analysis answer ends the request:    *)
(* the 500 response carries the parse error, nothing is persisted and no   *)
(* drafting call is made.                                                  *)
C8_ParseFailureAborts ==
  \A r \in Requests :
    ParseFailed(r) =>
      /\ Done(r)
      /\ resp[r] = <<Resp500(ParseError)>>
      /\ calls[r][Len(calls[r])].op = "complete_analysis"
      /\ Ops(r) \cap {"update_case", "complete_draft", "upload"} = {}
      /\ db[req[r].expediente_id] = FilaInicial

C8_Witness == \E r \in Requests : Done(r) /\ ParseFailed(r)

Default(f) == IF f = "semaforo" THEN JStr(Rojo) ELSE JStr(<<>>)

Columna(f) ==
  CASE f = "tipo_titulo" -> "titulo"
    [] f = "semaforo" -> "semaforo"
    [] f = "observacion" -> "observaciones"

(* C9: a field that is absent, null or empty in the parsed output reads as *)
(* the empty string, the status as red, in the row written by the update,  *)
(* in the drafting prompt and in the analysis of the 200 response.         *)
C9_DefaultsEverywhere ==
  \A r \in Requests : \A f \in Fields :
    (Reached(r, "Analyzed") /\ analisis[r].t = "obj" /\ ~Truthy(Get(analisis[r], f))) =>
      /\ (Succeeded(r, "update_case") /\ f \in {"tipo_titulo", "semaforo", "observacion"})
            => db[req[r].expediente_id][Columna(f)] = Default(f)
      /\ Count(r, "complete_draft") = 1 => prompt[r][f] = Default(f)
      /\ (Done(r) /\ resp[r][1].status = 200)
            => Get(resp[r][1].analisis, f) = Default(f)

(***************************************************************************)
(* Properties of the translation                                           *)
(***************************************************************************)
NumLineas(texto) == Cardinality({i \in 1..Len(texto) : texto[i] = "\n"}) + 1

EsTitulo(linea) ==
  \/ StartsWith(linea, <<"#", " ">>)
  \/ StartsWith(linea, <<"#", "#", " ">>)
  \/ StartsWith(linea, <<"#", "#", "#", " ">>)

(* the line without its heading marker *)
SinMarcador(linea) ==
  IF StartsWith(linea, <<"#", " ">>) THEN Drop(linea, 2)
  ELSE IF StartsWith(linea, <<"#", "#", " ">>) THEN Drop(linea, 3)
  ELSE IF StartsWith(linea, <<"#", "#", "#", " ">>) THEN Drop(linea, 4)
  ELSE linea

(* the line without its paired star markers: the first pair of stars that  *)
(* has a later pair closes at the nearest such pair; both are removed and  *)
(* the rest is treated the same way                                        *)
RECURSIVE SinNegritas(_)
SinNegritas(s) ==
  LET opens == {i \in 1..Len(s) :
                   StartsAt(s, i, Stars) /\ \E j \in (i + 2)..Len(s) : StartsAt(s, j, Stars)}
  IN  IF opens = {} THEN s
      ELSE LET i == Min(opens)
               j == Min({k \in (i + 2)..Len(s) : StartsAt(s, k, Stars)})
           IN  SubSeq(s, 1, i - 1) \o SubSeq(s, i + 2, j - 1) \o SinNegritas(Drop(s, j + 1))

UnBloquePorLinea == Len(mdOut.contenido) = NumLineas(mdIn)

(* C10 as stated: one block per line, and the run texts of a block give    *)
(* the line without its heading marker and without its paired bold         *)
(* markers, nothing else changed.                                          *)
C10_Original ==
  mdOut.done =>
    /\ UnBloquePorLinea
    /\ \A i \in 1..Len(mdOut.contenido) :
          BlockText(mdOut.contenido[i]) = SinNegritas(SinMarcador(Lineas(mdIn)[i]))

(* the line as the revision reads it: revision C trims it first *)
Leida(v, linea) == IF v = "C" THEN Trim(linea) ELSE linea

(* C10 amended: one block per line in order; the run texts of a block give *)
(* the line as read (trimmed in revision C, as is in A and B) without its  *)
(* heading marker when it is a heading line, bold markers kept, and        *)
(* without its paired bold markers otherwise.                              *)
C10_RoundTrip ==
  mdOut.done =>
    /\ UnBloquePorLinea
    /\ \A i \in 1..Len(mdOut.contenido) :
          LET linea == Leida(rev, Lineas(mdIn)[i])
          IN  BlockText(mdOut.contenido[i]) =
                IF EsTitulo(linea) THEN SinMarcador(linea) ELSE SinNegritas(linea)

C10_Witness ==
  /\ mdOut.done
  /\ rev = "C"
  /\ mdIn = <<"*", "*", "a", "*", "*", " ", "b", " ", "*", "*", "\n", " ", "#", "#", "#", " ", "a">>
  /\ Len(mdOut.contenido) = 2
  /\ Len(mdOut.contenido[1].children) = 3
  /\ BlockText(mdOut.contenido[2]) = <<"a">>


(***************************************************************************)
(* Properties of the translation, continued                                *)
(***************************************************************************)
(* the heading level a paragraph shows: its heading style in revisions A   *)
(* and B, its alignment and spacing in revision C; 0 for a body paragraph  *)
Nivel(b) ==
  CASE b.heading = "HEADING_1" -> 1
    [] b.heading = "HEADING_2" -> 2
    [] b.heading = "HEADING_3" -> 3
    [] b.heading = "" /\ b.alignment = "CENTER" /\ b.after = 400 -> 1
    [] b.heading = "" /\ b.alignment = "LEFT" /\ b.after = 300 -> 2
    [] b.heading = "" /\ b.alignment = "LEFT" /\ b.after = 250 -> 3
    [] OTHER -> 0

(* the runs of a paragraph as (text, bold) pairs *)
Runs(b) == [i \in 1..Len(b.children) |-> <<b.children[i].text, b.children[i].bold>>]

Title == <<"T", "i", "t", "l", "e">>

Bold == <<"B", "o", "l", "d">>

AndPlain == <<" ", "a", "n", "d", " ", "p", "l", "a", "i", "n">>

(* C11 as stated: the three-line text gives a level-1 heading Title, an    *)
(* empty paragraph without runs, and a paragraph of exactly two runs, Bold *)
(* in bold and the rest plain.                                             *)
C11_Original ==
  (mdOut.done /\ mdIn = BorradorTitulo) =>
    /\ Len(mdOut.contenido) = 3
    /\ Nivel(mdOut.contenido[1]) = 1
    /\ BlockText(mdOut.contenido[1]) = Title
    /\ Nivel(mdOut.contenido[2]) = 0
    /\ Runs(mdOut.contenido[2]) = <<>>
    /\ Runs(mdOut.contenido[3]) = <<<<Bold, TRUE>>, <<AndPlain, FALSE>>>>

(* C11 amended: the three-line text gives a level-1 heading Title, a blank *)
(* paragraph (without runs in revision C, with one empty plain run in A    *)
(* and B), and a paragraph of exactly three runs: an empty plain run, Bold *)
(* in bold, and the rest plain.                                            *)
C11_ThreeBlocks ==
  (mdOut.done /\ mdIn = BorradorTitulo) =>
    /\ Len(mdOut.contenido) = 3
    /\ Nivel(mdOut.contenido[1]) = 1
    /\ BlockText(mdOut.contenido[1]) = Title
    /\ Nivel(mdOut.contenido[2]) = 0
    /\ Runs(mdOut.contenido[2]) = IF rev = "C" THEN <<>> ELSE <<<<(<<>>), FALSE>>>>
    /\ Nivel(mdOut.contenido[3]) = 0
    /\ Runs(mdOut.contenido[3]) = <<<<(<<>>), FALSE>>, <<Bold, TRUE>>, <<AndPlain, FALSE>>>>

C11_Witness ==
  /\ mdOut.done
  /\ mdIn = BorradorTitulo
  /\ Len(mdOut.contenido[3].children) = 3

(***************************************************************************)
(* Properties of the request handler, continued                            *)
(***************************************************************************)
(* the other case of a letter *)
Swap(c) ==
  CASE c = "p" -> "P" [] c = "d" -> "D" [] c = "f" -> "F" [] c = "o" -> "O"
    [] c = "c" -> "C" [] c = "x" -> "X" [] OTHER -> c

(* path ends in suffix, each letter in either case *)
EndsInAnyCase(path, suffix) ==
  /\ Len(path) >= Len(suffix)
  /\ \A i \in 1..Len(suffix) :
        path[Len(path) - Len(suffix) + i] \in {suffix[i], Swap(suffix[i])}

Extracted(r) == Reached(r, "Downloaded") /\ pc[r] /= "extraer"

(* C12: after the download, a path that ends in neither .pdf nor .docx in  *)
(* any letter case ends the request with the 500 response of the           *)
(* unsupported format, the download being its only call; a path ending in  *)
(* .pdf in any case goes to the PDF extractor and one ending in .docx to   *)
(* the word-processor extractor.                                           *)
C12_FormatDispatch ==
  \A r \in Requests :
    Extracted(r) =>
      IF EndsInAnyCase(req[r].archivo_path, <<".", "p", "d", "f">>)
        THEN Len(calls[r]) >= 2 /\ calls[r][2].op = "pdf"
      ELSE IF EndsInAnyCase(req[r].archivo_path, <<".", "d", "o", "c", "x">>)
        THEN Len(calls[r]) >= 2 /\ calls[r][2].op = "docx"
      ELSE /\ Done(r)
           /\ resp[r] = <<Resp500(UnsupportedFormat)>>
           /\ calls[r] = <<Call("download", "ok")>>
           /\ Ops(r) \cap {"complete_analysis", "complete_draft", "update_case", "upload"} = {}

C12_Witness ==
  \E r \in Requests :
    /\ Done(r)
    /\ req[r].archivo_path = RutaTxt
    /\ resp[r] = <<Resp500(UnsupportedFormat)>>

C12_WitnessUpper ==
  \E r \in Requests :
    /\ req[r].archivo_path = RutaPdfMayus
    /\ Len(calls[r]) >= 2
    /\ calls[r][2] = Call("pdf", "ok")


(***************************************************************************)
(* Two requests in flight: the awaits of one handler interleave with the   *)
(* awaits of the other; the table and the bucket are the same for both     *)
(***************************************************************************)
ConcBodies == [expediente_id : ExpedienteIds, archivo_path : {RutaPdf}, user_id : {"u1"}]

ConcContents == {ContenidoCompleto, ContenidoRojo}

ConcDrafts == {BorradorVacio, BorradorEspacios}

StepConc(r) ==
  \/ \E body \in ConcBodies : Procesar(r, body)
  \/ \E error \in {"ok"} \cup DownloadErrors : Descargar(r, error)
  \/ \E error \in {"ok"} : ExtraerTexto(r, error)
  \/ \E content \in ConcContents : ObtenerAnalisisIA(r, FALSE, content)
  \/ \E error \in {"ok"} \cup UpdateErrors : ActualizarExpediente(r, error)
  \/ \E content \in ConcDrafts : GenerarDocumentoIA(r, FALSE, content)
  \/ \E error \in {"ok"} : GenerarDocxDesdeMarkdown(r, error)
  \/ \E error \in {"ok"} \cup UploadErrors : SubirADirectorioSupabase(r, error)

NextConc == \E r \in Requests : StepConc(r)

SpecConc == Init /\ [][NextConc]_vars

(***************************************************************************)
(* Properties of two requests in flight                                    *)
(***************************************************************************)
Other(r) == Requests \ {r}

(* request r has written the row of case e / the object at path p *)
WroteRow(r, e) == Reached(r, "Persisted") /\ req[r].expediente_id = e

WroteObject(r, p) == Reached(r, "Uploaded") /\ docxUrl[r] = p

(* this step is r's update of the row / r's upload *)
PersistsNow(r) == ~Reached(r, "Persisted") /\ Reached(r, "Persisted")'

UploadsNow(r) == ~Reached(r, "Uploaded") /\ Reached(r, "Uploaded")'

AllDone == \A r \in Requests : Done(r)

Answered200(r) == resp[r] /= <<>> /\ resp[r][1].status = 200

(* what r's 200 response refers to is what r itself produced *)
OwnResults(r) ==
  /\ storage[docxUrl[r]] = docx[r]
  /\ db[req[r].expediente_id] = FilaActualizada(analisis[r])

(* C13: in every interleaving of two requests no step of one overwrites   *)
(* a row or an object the other has written, and once both have finished  *)
(* the row of a successful request's case holds that request's analysis    *)
(* and the object at its document_url is the document it rendered.         *)
C13_NoSharedState ==
  [][/\ \A r \in Requests :
          /\ PersistsNow(r) =>
               ~\E o \in Other(r) : WroteRow(o, req[r].expediente_id)
          /\ UploadsNow(r) =>
               ~\E o \in Other(r) :
                  WroteObject(o, FilePath(req[r].user_id, req[r].expediente_id))
     /\ AllDone' => \A r \in Requests : (Answered200(r) => OwnResults(r))'
    ]_vars

(* the same, for requests about different cases *)
DifferentCases == \A r \in Requests : \A o \in Other(r) :
  (pc[r] /= "idle" /\ pc[o] /= "idle") => req[r].expediente_id /= req[o].expediente_id

IsolatedWhenDifferent ==
  (AllDone /\ DifferentCases) => \A r \in Requests : (Answered200(r) => OwnResults(r))

BothSucceededSameCase ==
  /\ AllDone
  /\ \A r \in Requests : Answered200(r)
  /\ req["r1"].expediente_id = req["r2"].expediente_id


(***************************************************************************)
(* Order of the stages                                                     *)
(***************************************************************************)
IsPrefix(s, t) == Len(s) <= Len(t) /\ \A i \in 1..Len(s) : s[i] = t[i]

(* the call that completes each of the first seven stages *)
StageOps ==
  <<{"download"}, {"pdf", "docx"}, {"complete_analysis"}, {"update_case"},
    {"complete_draft"}, {"render"}, {"upload"}>>

StagesInOrder(r) ==
  /\ IsPrefix(hist[r], Stages)
  (* a stage is reached only by the success of its call *)
  /\ \A k \in 1..Min({Len(hist[r]), Len(StageOps)}) :
        /\ k <= Len(calls[r])
        /\ calls[r][k].op \in StageOps[k]
        /\ calls[r][k].result = "ok"
  (* a call is made only when every earlier stage has been reached *)
  /\ \A k \in 1..Len(calls[r]) :
        /\ k <= Len(StageOps)
        /\ calls[r][k].op \in StageOps[k]
        /\ k - 1 <= Len(hist[r])
  /\ ("complete_draft" \in Ops(r)) => Reached(r, "Persisted")
  /\ ("upload" \in Ops(r)) => Reached(r, "Rendered")
  /\ Answered200(r) => hist[r] = Stages

(* C14: in every step the stages a request has reached grow along          *)
(* Downloaded, TextExtracted, Analyzed, Persisted, Drafted, Rendered,      *)
(* Uploaded, Recorded and never shrink or skip; a call is made only after  *)
(* the stage before it was reached (the drafting call after Persisted, the *)
(* upload after Rendered); a request answered 200 reached all eight.       *)
C14_StagesInOrder ==
  [][\A r \in Requests : IsPrefix(hist[r], hist'[r]) /\ StagesInOrder(r)']_vars

C14_Witness ==
  \E r \in Requests : Answered200(r) /\ hist[r] = Stages /\ Len(calls[r]) = 7


(***************************************************************************)
(* Classification of the lines                                             *)
(***************************************************************************)
(* what the trimmed line t asks of its paragraph b *)
Clasificado(b, t) ==
  IF t = <<>> THEN Nivel(b) = 0 /\ BlockText(b) = <<>>
  ELSE IF StartsWith(t, <<"#", "#", "#", " ">>) THEN Nivel(b) = 3 /\ BlockText(b) = Drop(t, 4)
  ELSE IF StartsWith(t, <<"#", "#", " ">>) THEN Nivel(b) = 2 /\ BlockText(b) = Drop(t, 3)
  ELSE IF StartsWith(t, <<"#", " ">>) THEN Nivel(b) = 1 /\ BlockText(b) = Drop(t, 2)
  ELSE Nivel(b) = 0

LineasClasificadas ==
  /\ Len(mdOut.contenido) = NumLineas(mdIn)
  /\ \A k \in 1..Len(mdOut.contenido) :
        Clasificado(mdOut.contenido[k], Trim(Lineas(mdIn)[k]))

(* C15: every line gives one paragraph, classified on the trimmed line: an *)
(* empty paragraph when nothing is left, a heading of level 3, 2 or 1 with *)
(* the remainder as its text for the markers of three, two and one hash    *)
(* and a space, a body paragraph otherwise; the three heading levels are   *)
(* told apart in the output.                                               *)
C15_LineClassification == mdOut.done => LineasClasificadas

(* the same in the revision that trims its lines *)
ClasificadasEnC == (mdOut.done /\ rev = "C") => LineasClasificadas

HayTituloSangrado ==
  /\ mdOut.done
  /\ rev = "C"
  /\ \E k \in 1..Len(mdOut.contenido) :
        /\ Lineas(mdIn)[k] /= Trim(Lineas(mdIn)[k])
        /\ Nivel(mdOut.contenido[k]) = 3


(***************************************************************************)
(* Runs of a body line                                                     *)
(***************************************************************************)
HasStars(s) == \E p \in 1..Len(s) : StartsAt(s, p, Stars)

HasPair(s) == \E p \in 1..Len(s) : \E q \in (p + 2)..Len(s) :
  StartsAt(s, p, Stars) /\ StartsAt(s, q, Stars)

(* the runs written back as a line: stars around the bold ones *)
ConEstrellas(runs) ==
  Flatten([i \in 1..Len(runs) |->
             IF runs[i][2] THEN Stars \o runs[i][1] \o Stars ELSE runs[i][1]])

(* runs are the split of line l on its paired stars *)
SegmentosDe(runs, l) ==
  /\ Len(runs) % 2 = 1
  /\ \A i \in 1..Len(runs) : runs[i][2] = (i % 2 = 0)
  /\ ConEstrellas(runs) = l
  (* a pair is taken as soon as it closes, the leftmost first *)
  /\ \A i \in 1..(Len(runs) - 1) : ~HasStars(runs[i][1] \o <<"*">>) \/ runs[i][1] = <<>>
  /\ \A i \in 1..(Len(runs) - 1) : ~HasStars(runs[i][1])
  (* what is left holds no pair; a lone pair of stars stays in it *)
  /\ ~HasPair(runs[Len(runs)][1])

EsCuerpo(l) == l /= <<>> /\ ~EsTitulo(l)

(* C16: the runs of a body line are the segments of the line split on its  *)
(* paired double stars, in order: the segments between a pair are bold,    *)
(* the others plain, empty segments included; double stars left without a  *)
(* partner stay as plain text in the last run.                             *)
C16_BoldRuns ==
  mdOut.done =>
    \A k \in 1..Len(mdOut.contenido) :
      LET l == Leida(rev, Lineas(mdIn)[k])
      IN  EsCuerpo(l) => SegmentosDe(Runs(mdOut.contenido[k]), l)

C16_Witness ==
  /\ mdOut.done
  /\ \E k \in 1..Len(mdOut.contenido) :
        LET runs == Runs(mdOut.contenido[k])
        IN  /\ EsCuerpo(Leida(rev, Lineas(mdIn)[k]))
            /\ Len(runs) = 3
            /\ runs[1][1] = <<>>
            /\ runs[2] = <<(<<"a">>), TRUE>>
            /\ HasStars(runs[3][1])


(***************************************************************************)
(* The status flag seen by the three consumers of the analysis             *)
(***************************************************************************)
FlagEnFila(r) == db[req[r].expediente_id].semaforo

FlagEnPrompt(r) == prompt[r]["semaforo"]

FlagEnRespuesta(r) == Get(resp[r][1].analisis, "semaforo")

MismoFlag(r) == FlagEnFila(r) = FlagEnPrompt(r) /\ FlagEnPrompt(r) = FlagEnRespuesta(r)

(* C17: in a request answered 200 the status flag written to the row, the  *)
(* status flag in the drafting prompt and the status flag of the analysis  *)
(* in the response are the same, whatever the parsed output was, a status  *)
(* that is absent, null or empty included.                                 *)
C17_SameStatusFlag ==
  \A r \in Requests : Answered200(r) => MismoFlag(r)

(* the same, when the parsed status is a non-empty string *)
MismoFlagSiPresente ==
  \A r \in Requests :
    (Answered200(r) /\ Get(analisis[r], "semaforo").t = "str"
                    /\ Truthy(Get(analisis[r], "semaforo"))) => MismoFlag(r)

HayFlagPresente ==
  \E r \in Requests : Answered200(r) /\ Get(analisis[r], "semaforo") = JStr(Verde)

====
